---- MODULE Spec2Model ----
(***************************************************************************)
(* A model of the CSLM fine-tuning pipeline: the dataset adapter           *)
(* (cslm/dataset.py, CSLMDataset) and the training module (cslm/model.py,  *)
(* LightningModel).  Every method is one action; the value a method        *)
(* returns, or the exception it raises, is left in `ret`, and the method   *)
(* and its argument in `call`.  Class indices are 0-based as in Python;    *)
(* vectors are TLA+ sequences, so class k sits at position k + 1.          *)
(***************************************************************************)
EXTENDS Integers, Sequences, FiniteSets, TLC

VARIABLES
    data,           \* CSLMDataset.data: the rows read from the CSV file
    labels2num,     \* CSLMDataset.labels2num
    config,         \* the hyperparameter record (hparams / config)
    requires_grad,  \* parameter name -> requires_grad, for model.named_parameters()
    accuracy,       \* the state of self.accuracy (torchmetrics accumulator)
    optimizer,      \* the optimizer configure_optimizers returned (its param groups)
    scheduler,      \* the scheduler descriptor configure_optimizers returned
    logged,         \* the self.log calls of the latest epoch-end hook
    call,           \* the latest method call: [op, arg]
    ret             \* what that call returned or raised

vars == <<data, labels2num, config, requires_grad, accuracy, optimizer,
          scheduler, logged, call, ret>>

----------------------------------------------------------------------------
(* Bounds of the model. *)

MaxRows == 2
MaxClasses == 3

(* Program constants. *)

MaxLength == 128

----------------------------------------------------------------------------
(* Small helpers. *)

RECURSIVE SumSeq(_)
SumSeq(s) == IF s = <<>> THEN 0 ELSE Head(s) + SumSeq(Tail(s))

SeqsUpTo(S, n) == UNION {[1..k -> S] : k \in 0..n}

----------------------------------------------------------------------------
(* The dataset adapter: cslm/dataset.py *)

Labels2Num == ("positive" :> 0) @@ ("negative" :> 1) @@ ("neutral" :> 2)

\* label strings a CSV file may hold: the three of the vocabulary and one other
LabelStrings == {"positive", "negative", "neutral", "mixed"}

\* a sentence is the sequence of its word pieces; these are the lengths tried
SentenceLens == {1, MaxLength - 2, MaxLength - 1}

WordPieces(n) == [j \in 1..n |-> 1000 + j]

Rows == [sentence : {WordPieces(n) : n \in SentenceLens}, label : LabelStrings]

Tables == SeqsUpTo(Rows, MaxRows)

\* __len__
Size(d) == Len(d)

\* Iloc with a bug: negative positions rejected
IlocNoNegative(d, idx) ==
    IF idx >= Len(d) \/ idx < 0
    THEN [ok |-> FALSE, err |-> "IndexError"]
    ELSE [ok |-> TRUE, row |-> d[idx + 1]]

\* data.iloc[idx, col]: positional access, negative positions count from the end
Iloc(d, idx) ==
    IF idx >= Len(d) \/ idx < 0 - Len(d)
    THEN [ok |-> FALSE, err |-> "IndexError"]
    ELSE [ok |-> TRUE, row |-> d[IF idx < 0 THEN idx + Len(d) + 1 ELSE idx + 1]]

\* LookupLabel with a bug: labels2num.get(label, 0), a fallback class
LookupLabelFallback(label) ==
    IF label \in DOMAIN labels2num
    THEN [ok |-> TRUE, num |-> labels2num[label]]
    ELSE [ok |-> TRUE, num |-> 0]

\* self.labels2num[label]
LookupLabel(label) ==
    IF label \in DOMAIN labels2num
    THEN [ok |-> TRUE, num |-> labels2num[label]]
    ELSE [ok |-> FALSE, err |-> "KeyError"]

\* OneHot with a bug: the class index taken as 1-based
OneHotOffByOne(k, num_classes) ==
    IF k >= num_classes
    THEN [ok |-> FALSE, err |-> "RuntimeError"]
    ELSE [ok |-> TRUE, value |-> [i \in 1..num_classes |-> IF i = k THEN 1 ELSE 0]]

\* one_hot(torch.tensor(k), num_classes).float()
OneHot(k, num_classes) ==
    IF k >= num_classes
    THEN [ok |-> FALSE, err |-> "RuntimeError"]
    ELSE [ok |-> TRUE, value |-> [i \in 1..num_classes |-> IF i = k + 1 THEN 1 ELSE 0]]

\* EncodePlus with a bug: padding left out
EncodePlusNoPadding(sentence) ==
    LET kept == IF Len(sentence) > MaxLength - 2 THEN MaxLength - 2 ELSE Len(sentence)
        real == <<101>> \o SubSeq(sentence, 1, kept) \o <<102>>
    IN  [input_ids |-> real, attention_mask |-> [i \in 1..Len(real) |-> 1]]

\* tokenizer.encode_plus(sentence, max_length=128, padding='max_length',
\*   truncation=True, add_special_tokens=True, return_attention_mask=True)
EncodePlus(sentence) ==
    LET kept == IF Len(sentence) > MaxLength - 2 THEN MaxLength - 2 ELSE Len(sentence)
        real == <<101>> \o SubSeq(sentence, 1, kept) \o <<102>>
    IN  [input_ids |-> [i \in 1..MaxLength |-> IF i <= Len(real) THEN real[i] ELSE 0],
         attention_mask |-> [i \in 1..MaxLength |-> IF i <= Len(real) THEN 1 ELSE 0]]

\* the body of __getitem__: the first failing line decides the exception
GetItemResult(idx) ==
    LET at == Iloc(data, idx) IN
    IF ~at.ok THEN [status |-> at.err] ELSE
    LET lab == LookupLabel(at.row.label) IN
    IF ~lab.ok THEN [status |-> lab.err] ELSE
    LET target_label == OneHot(lab.num, config.num_classes) IN
    IF ~target_label.ok THEN [status |-> target_label.err] ELSE
    LET encoding == EncodePlus(at.row.sentence) IN
    [status |-> "ok",
     input_ids |-> encoding.input_ids,
     attention_mask |-> encoding.attention_mask,
     labels |-> target_label.value]

----------------------------------------------------------------------------
(* The training module: cslm/model.py *)

MaxParams == 2
MaxBatch == 2
MaxSeen == 4

\* Parameter names are sequences of characters, so that Python's substring
\* test `marker in name` is computed, not assumed.
Dot == <<".">>
Bias == <<"b", "i", "a", "s">>
Weight == <<"w", "e", "i", "g", "h", "t">>
Classifier == <<"c", "l", "a", "s", "s", "i", "f", "i", "e", "r">>
LayerNorm == <<"L", "a", "y", "e", "r", "N", "o", "r", "m">>
LayerNormWeight == LayerNorm \o Dot \o Weight
Bert == <<"b", "e", "r", "t">>
Dense == <<"d", "e", "n", "s", "e">>
PreUnderscore == <<"p", "r", "e", "_">>
SaLayerNorm == <<"s", "a", "_", "l", "a", "y", "e", "r", "_", "n", "o", "r", "m">>

\* names a sequence-classification model of the hub may give its parameters
ParamNames ==
    { Bias,                                         \* "bias"
      Classifier \o Dot \o Weight,                  \* "classifier.weight"
      Classifier \o Dot \o Bias,                    \* "classifier.bias"
      PreUnderscore \o Classifier \o Dot \o Weight, \* "pre_classifier.weight"
      Bert \o Dot \o LayerNormWeight,               \* "bert.LayerNorm.weight"
      Bert \o Dot \o LayerNorm \o Dot \o Bias,      \* "bert.LayerNorm.bias"
      Bert \o Dot \o Dense \o Dot \o Weight,        \* "bert.dense.weight"
      SaLayerNorm \o Dot \o Weight }                \* "sa_layer_norm.weight"

ParamSets == {ns \in SUBSET ParamNames : Cardinality(ns) <= MaxParams}

\* Python's `marker in name` on strings
Contains(name, marker) ==
    \E i \in 1..(Len(name) - Len(marker) + 1) :
        SubSeq(name, i, i + Len(marker) - 1) = marker

\* values the freeze flag of a configuration may hold
FreezeFlags == {"true", "false", "True"}

\* FreezeParams with a bug: any flag other than "false" taken as enabled
FreezeParamsTruthy(names, cfg) ==
    [n \in names |->
        IF cfg.freeze # "false" /\ ~Contains(n, Classifier) THEN FALSE ELSE TRUE]

\* __init__, lines 32-36: a pretrained parameter starts with requires_grad = True
FreezeParams(names, cfg) ==
    [n \in names |->
        IF cfg.freeze = "true" /\ ~Contains(n, Classifier) THEN FALSE ELSE TRUE]

\* __init__, lines 27-31
NewAccuracy(cfg) ==
    [task |-> IF cfg.num_classes = 2 THEN "binary" ELSE "multiclass",
     num_classes |-> cfg.num_classes,
     correct |-> 0,
     total |-> 0]

RECURSIVE GCD(_, _)
GCD(a, b) == IF b = 0 THEN a ELSE GCD(b, a % b)

\* the rational n/d in lowest terms
Frac(n, d) == LET g == GCD(n, d) IN <<n \div g, d \div g>>

\* torch.argmax(v): the 0-based position of the first maximal entry
Argmax(v) ==
    (CHOOSE i \in 1..Len(v) :
        /\ \A j \in 1..Len(v) : v[j] <= v[i]
        /\ \A j \in 1..(i - 1) : v[j] < v[i]) - 1

\* torch.argmax(m, dim=1)
ArgmaxRows(m) == [i \in 1..Len(m) |-> Argmax(m[i])]

RECURSIVE Flatten(_)
Flatten(m) == IF m = <<>> THEN <<>> ELSE Head(m) \o Flatten(Tail(m))

\* t.view(-1, c): the entries in row-major order, cut into rows of c
View(t, c) ==
    LET flat == Flatten(t) IN
    [i \in 1..(Len(flat) \div c) |-> SubSeq(flat, (i - 1) * c + 1, i * c)]

\* The examples a loader may put in a batch.  An example is a row of the
\* dataset: `input_ids` names its token sequence, `label` its class.
Pool == {[input_ids |-> 1, label |-> 0], [input_ids |-> 2, label |-> 2],
         [input_ids |-> 3, label |-> 1], [input_ids |-> 4, label |-> 0]}

\* The raw scores of the upstream model (opaque; AutoModelForSequenceClassification
\* with num_labels = num_classes) on the token sequences of the pool.
Upstream(input_ids, num_classes) ==
    LET row == CASE input_ids = 1 -> <<2, 1, 0>>
                 [] input_ids = 2 -> <<0, 1, 2>>
                 [] input_ids = 3 -> <<1, 1, 0>>
                 [] OTHER -> <<0, 2, 1>>
    IN  SubSeq(row, 1, num_classes)

\* the collated batch of a sequence of examples, the labels one-hot as
\* __getitem__ makes them (a label beyond num_classes never reaches a batch)
Collate(examples, num_classes) ==
    [input_ids |-> [i \in 1..Len(examples) |-> examples[i].input_ids],
     labels |-> [i \in 1..Len(examples) |->
                    [c \in 1..num_classes |-> IF c = examples[i].label + 1 THEN 1 ELSE 0]]]

Batches(num_classes) ==
    {Collate(es, num_classes) :
        es \in {e \in SeqsUpTo({x \in Pool : x.label < num_classes}, MaxBatch) : e # <<>>}}

\* forward(): outputs[0], one row of scores per example
Forward(batch) ==
    [i \in 1..Len(batch.input_ids) |-> Upstream(batch.input_ids[i], config.num_classes)]

\* self.accuracy(preds, target): torchmetrics' Metric.forward.  It gives the
\* accuracy of this batch alone and adds the batch to the accumulated state.
\* The binary metric wants preds and target of one shape; the multiclass
\* metric takes the argmax of float preds over the class dimension.
AccuracyForward(acc, preds, target) ==
    IF acc.task = "binary"
    THEN IF <<Len(preds), Len(preds[1])>> # <<Len(target)>>
         THEN [ok |-> FALSE, err |-> "RuntimeError"]
         ELSE LET hits == Cardinality({i \in 1..Len(target) : preds[i] = target[i]})
              IN  [ok |-> TRUE, value |-> Frac(hits, Len(target)),
                   state |-> [acc EXCEPT !.correct = @ + hits, !.total = @ + Len(target)]]
    ELSE LET hits == Cardinality({i \in 1..Len(target) : Argmax(preds[i]) = target[i]})
         IN  [ok |-> TRUE, value |-> Frac(hits, Len(target)),
              state |-> [acc EXCEPT !.correct = @ + hits, !.total = @ + Len(target)]]

\* torch.nn.CrossEntropyLoss()(input, target) with class-probability targets:
\* a real number fixed by its two arguments, kept as the term itself
CrossEntropyLoss(input, target) == [fn |-> "cross_entropy", input |-> input, target |-> target]

\* training_step, lines 45-65
TrainingStepResult(batch) ==
    LET labels == batch.labels
        logits == Forward(batch)
        preds == View(logits, config.num_classes)
        acc == AccuracyForward(accuracy, preds, ArgmaxRows(labels))
    IN  IF ~acc.ok THEN [status |-> acc.err, state |-> accuracy]
        ELSE [status |-> "ok", state |-> acc.state,
              value |-> [loss |-> CrossEntropyLoss(preds, labels), acc |-> acc.value]]

\* ValidationStepResult with a bug: the accuracy accumulated over every step
\* so far (the metric's compute()) returned in place of this batch's
ValidationStepAccumulated(batch) ==
    LET labels == batch.labels
        logits == Forward(batch)
        preds == View(logits, config.num_classes)
        acc == AccuracyForward(accuracy, preds, ArgmaxRows(labels))
    IN  IF ~acc.ok THEN [status |-> acc.err, state |-> accuracy]
        ELSE [status |-> "ok", state |-> acc.state,
              value |-> [val_loss |-> CrossEntropyLoss(preds, labels),
                         val_acc |-> Frac(acc.state.correct, acc.state.total)]]

\* validation_step, lines 76-89
ValidationStepResult(batch) ==
    LET labels == batch.labels
        logits == Forward(batch)
        preds == View(logits, config.num_classes)
        acc == AccuracyForward(accuracy, preds, ArgmaxRows(labels))
    IN  IF ~acc.ok THEN [status |-> acc.err, state |-> accuracy]
        ELSE [status |-> "ok", state |-> acc.state,
              value |-> [val_loss |-> CrossEntropyLoss(preds, labels), val_acc |-> acc.value]]

\* test_step, lines 98-112
TestStepResult(batch) ==
    LET labels == batch.labels
        logits == Forward(batch)
        preds == View(logits, config.num_classes)
        acc == AccuracyForward(accuracy, preds, ArgmaxRows(labels))
    IN  IF ~acc.ok THEN [status |-> acc.err, state |-> accuracy]
        ELSE [status |-> "ok", state |-> acc.state,
              value |-> [test_loss |-> CrossEntropyLoss(preds, labels), test_acc |-> acc.value]]

\* what a call leaves in `ret`: its value, or the exception it raised
Returned(r) == IF r.status = "ok" THEN [status |-> "ok", value |-> r.value]
               ELSE [status |-> r.status]

DatasetUnchanged == UNCHANGED <<data, labels2num>>

training_step(batch) ==
    /\ accuracy.total + Len(batch.labels) <= MaxSeen
    /\ call' = [op |-> "training_step", arg |-> batch]
    /\ ret' = Returned(TrainingStepResult(batch))
    /\ accuracy' = TrainingStepResult(batch).state
    /\ UNCHANGED <<config, requires_grad, optimizer, scheduler, logged>>
    /\ DatasetUnchanged

validation_step(batch) ==
    /\ accuracy.total + Len(batch.labels) <= MaxSeen
    /\ call' = [op |-> "validation_step", arg |-> batch]
    /\ ret' = Returned(ValidationStepResult(batch))
    /\ accuracy' = ValidationStepResult(batch).state
    /\ UNCHANGED <<config, requires_grad, optimizer, scheduler, logged>>
    /\ DatasetUnchanged

test_step(batch) ==
    /\ accuracy.total + Len(batch.labels) <= MaxSeen
    /\ call' = [op |-> "test_step", arg |-> batch]
    /\ ret' = Returned(TestStepResult(batch))
    /\ accuracy' = TestStepResult(batch).state
    /\ UNCHANGED <<config, requires_grad, optimizer, scheduler, logged>>
    /\ DatasetUnchanged

----------------------------------------------------------------------------
(* Epoch aggregation *)

MaxOutputs == 2

\* rationals are pairs <<numerator, denominator>> in lowest terms; <<0, 0>> is nan
AddQ(a, b) == Frac(a[1] * b[2] + b[1] * a[2], a[2] * b[2])

RECURSIVE SumQ(_)
SumQ(s) == IF s = <<>> THEN <<0, 1>> ELSE AddQ(Head(s), SumQ(Tail(s)))

\* torch.tensor(values).mean()
Mean(values) ==
    IF values = <<>> THEN <<0, 0>>
    ELSE LET total == SumQ(values) IN Frac(total[1], total[2] * Len(values))

\* self.log(name, value, on_step=False, on_epoch=True, prog_bar=True)
Log(name, value) ==
    [name |-> name, value |-> value, on_step |-> FALSE, on_epoch |-> TRUE, prog_bar |-> TRUE]

\* per-batch losses and accuracies a pass may have produced
LossValues == {<<1, 5>>, <<2, 5>>, <<3, 5>>}
AccValues == {<<1, 2>>, <<1, 1>>}

TrainOutputs == SeqsUpTo([loss : LossValues, acc : AccValues], MaxOutputs) \ {<<>>}
ValOutputs == SeqsUpTo([val_loss : LossValues, val_acc : AccValues], MaxOutputs) \ {<<>>}
TestOutputs == SeqsUpTo([test_loss : LossValues, test_acc : AccValues], MaxOutputs) \ {<<>>}

\* training_epoch_end, lines 68-72
TrainingEpochEndLogs(outputs) ==
    LET loss == Mean([i \in 1..Len(outputs) |-> outputs[i].loss])
        train_acc == Mean([i \in 1..Len(outputs) |-> outputs[i].acc])
    IN  <<Log("train/loss", loss), Log("train/acc", train_acc)>>

\* validation_epoch_end, lines 92-95
ValidationEpochEndLogs(outputs) ==
    LET val_acc == Mean([i \in 1..Len(outputs) |-> outputs[i].val_acc])
        loss == Mean([i \in 1..Len(outputs) |-> outputs[i].val_loss])
    IN  <<Log("val/loss", loss), Log("val/acc", val_acc)>>

\* TestEpochEndLogs with a bug: the two means logged under each other's label
TestEpochEndLogsSwapped(outputs) ==
    LET train_acc == Mean([i \in 1..Len(outputs) |-> outputs[i].test_acc])
        loss == Mean([i \in 1..Len(outputs) |-> outputs[i].test_loss])
    IN  <<Log("test/loss", train_acc), Log("test/acc", loss)>>

\* test_epoch_end, lines 115-118
TestEpochEndLogs(outputs) ==
    LET train_acc == Mean([i \in 1..Len(outputs) |-> outputs[i].test_acc])
        loss == Mean([i \in 1..Len(outputs) |-> outputs[i].test_loss])
    IN  <<Log("test/loss", loss), Log("test/acc", train_acc)>>

None == [status |-> "ok", value |-> "None"]

training_epoch_end(outputs) ==
    /\ call' = [op |-> "training_epoch_end", arg |-> outputs]
    /\ logged' = TrainingEpochEndLogs(outputs)
    /\ ret' = None
    /\ UNCHANGED <<config, requires_grad, accuracy, optimizer, scheduler>>
    /\ DatasetUnchanged

validation_epoch_end(outputs) ==
    /\ call' = [op |-> "validation_epoch_end", arg |-> outputs]
    /\ logged' = ValidationEpochEndLogs(outputs)
    /\ ret' = None
    /\ UNCHANGED <<config, requires_grad, accuracy, optimizer, scheduler>>
    /\ DatasetUnchanged

test_epoch_end(outputs) ==
    /\ call' = [op |-> "test_epoch_end", arg |-> outputs]
    /\ logged' = TestEpochEndLogs(outputs)
    /\ ret' = None
    /\ UNCHANGED <<config, requires_grad, accuracy, optimizer, scheduler>>
    /\ DatasetUnchanged

----------------------------------------------------------------------------
(* Optimizer and learning-rate schedule *)

MaxEpochs == 8
MaxSchedSteps == 12

WarmupSteps == 5

\* learning rates and schedule factors are fixed-point numbers, Scale to one
Scale == 10000
PiScaled == 31416

\* no_decay, line 125
NoDecay == {Bias, LayerNormWeight}

\* AnyNoDecay with a bug: all(...) for any(...)
AllNoDecay(n) == \A nd \in NoDecay : Contains(n, nd)

\* any(nd in n for nd in no_decay)
AnyNoDecay(n) == \E nd \in NoDecay : Contains(n, nd)

\* optimizer_grouped_parameters, lines 126-135
GroupedParameters(names) ==
    << [params |-> {n \in names : ~AnyNoDecay(n)}, weight_decay |-> config.weight_decay],
       [params |-> {n \in names : AnyNoDecay(n)}, weight_decay |-> 0] >>

\* cos(x) for x = pi * m / d in [0, pi/2], by its Taylor series to the x^10 term
CosFirstQuadrant(m, d) ==
    LET x == (PiScaled * m) \div d
        x2 == (x * x) \div Scale
        t1 == (Scale * x2) \div (Scale * 2)
        t2 == (t1 * x2) \div (Scale * 12)
        t3 == (t2 * x2) \div (Scale * 30)
        t4 == (t3 * x2) \div (Scale * 56)
        t5 == (t4 * x2) \div (Scale * 90)
    IN  Scale - t1 + t2 - t3 + t4 - t5

\* math.cos(math.pi * n / d) for n >= 0, d > 0: cos has period 2 pi, is even
\* about pi, and cos(pi - x) = -cos(x)
CosPi(n, d) ==
    LET r == n % (2 * d)
        m == IF r > d THEN 2 * d - r ELSE r
    IN  IF 2 * m > d THEN 0 - CosFirstQuadrant(d - m, d) ELSE CosFirstQuadrant(m, d)

Max(a, b) == IF a >= b THEN a ELSE b

\* LrLambda with a bug: progress measured against all the training steps, the
\* warmup steps not taken off
LrLambdaWholeSpan(current_step, num_warmup_steps, num_training_steps) ==
    IF current_step < num_warmup_steps
    THEN (Scale * current_step) \div Max(1, num_warmup_steps)
    ELSE Max(0, (Scale + CosPi(current_step - num_warmup_steps,
                               Max(1, num_training_steps))) \div 2)

\* lr_lambda of get_cosine_schedule_with_warmup(optimizer, num_warmup_steps,
\* num_training_steps), num_cycles = 0.5
LrLambda(current_step, num_warmup_steps, num_training_steps) ==
    IF current_step < num_warmup_steps
    THEN (Scale * current_step) \div Max(1, num_warmup_steps)
    ELSE Max(0, (Scale + CosPi(current_step - num_warmup_steps,
                               Max(1, num_training_steps - num_warmup_steps))) \div 2)

\* the scheduler sets every group's lr to base_lr * lr_lambda(last_epoch)
SetLr(groups, sched) ==
    [g \in 1..Len(groups) |->
        [params |-> groups[g].params,
         weight_decay |-> groups[g].weight_decay,
         lr |-> config.lr * LrLambda(sched.last_epoch, sched.num_warmup_steps,
                                     sched.num_training_steps)]]

\* the scheduler of lines 144-149; constructing it takes the schedule's step 0
NewScheduler ==
    [status |-> "set", interval |-> "step", num_warmup_steps |-> WarmupSteps,
     num_training_steps |-> config.epochs, last_epoch |-> 0]

configure_optimizers ==
    /\ call' = [op |-> "configure_optimizers", arg |-> 0]
    /\ scheduler' = NewScheduler
    /\ optimizer' = SetLr(GroupedParameters(DOMAIN requires_grad), NewScheduler)
    /\ ret' = None
    /\ UNCHANGED <<config, requires_grad, accuracy, logged>>
    /\ DatasetUnchanged

\* the trainer advances a scheduler of interval "step" after every optimizer step
scheduler_step ==
    /\ scheduler.status = "set"
    /\ scheduler.last_epoch < MaxSchedSteps
    /\ call' = [op |-> "scheduler.step", arg |-> 0]
    /\ scheduler' = [scheduler EXCEPT !.last_epoch = @ + 1]
    /\ optimizer' = SetLr(optimizer, scheduler')
    /\ ret' = None
    /\ UNCHANGED <<config, requires_grad, accuracy, logged>>
    /\ DatasetUnchanged

----------------------------------------------------------------------------
(* Specifications.  Each starts after construction (CSLMDataset.__init__,     *)
(* LightningModel.__init__) and lets the driver call the methods in any order. *)

DefaultConfig ==
    [num_classes |-> 3, freeze |-> "false", epochs |-> 8, weight_decay |-> 1, lr |-> 2]

NoCall == [op |-> "none", arg |-> 0]
NoRet == [status |-> "none"]

\* CSLMDataset.__init__, lines 11-14
InitDataset(table) ==
    /\ data = table
    /\ labels2num = Labels2Num

\* LightningModel.__init__, lines 20-36, over a model with the parameters `names`
InitModule(names, cfg) ==
    /\ config = cfg
    /\ requires_grad = FreezeParams(names, cfg)
    /\ accuracy = NewAccuracy(cfg)
    /\ optimizer = <<>>
    /\ scheduler = [status |-> "none"]
    /\ logged = <<>>
    /\ call = NoCall
    /\ ret = NoRet

DefaultNames == {Classifier \o Dot \o Weight, Bert \o Dot \o Dense \o Dot \o Weight}

\* the dataset adapter over every table and class count
Indices == (0 - MaxRows - 1)..(MaxRows + 1)

__getitem__(idx) ==
    /\ call' = [op |-> "__getitem__", arg |-> idx]
    /\ ret' = GetItemResult(idx)
    /\ UNCHANGED <<config, requires_grad, accuracy, optimizer, scheduler, logged>>
    /\ DatasetUnchanged

__len__ ==
    /\ call' = [op |-> "__len__", arg |-> 0]
    /\ ret' = [status |-> "ok", value |-> Size(data)]
    /\ UNCHANGED <<config, requires_grad, accuracy, optimizer, scheduler, logged>>
    /\ DatasetUnchanged

InitData ==
    \E table \in Tables, c \in 2..MaxClasses :
        /\ InitDataset(table)
        /\ InitModule({}, [DefaultConfig EXCEPT !.num_classes = c])

NextData ==
    \/ \E idx \in Indices : __getitem__(idx)
    \/ __len__

SpecData == InitData /\ [][NextData]_vars

\* the three step functions over every batch, in binary and multi-class mode
StepClasses == {2, 3}

InitStep ==
    \E c \in StepClasses :
        /\ InitDataset(<<>>)
        /\ InitModule(DefaultNames, [DefaultConfig EXCEPT !.num_classes = c])

NextStep ==
    \E batch \in Batches(config.num_classes) :
        \/ training_step(batch)
        \/ validation_step(batch)
        \/ test_step(batch)

SpecStep == InitStep /\ [][NextStep]_vars

\* the three epoch-end hooks over every sequence of per-batch results
InitEpoch ==
    /\ InitDataset(<<>>)
    /\ InitModule(DefaultNames, DefaultConfig)

NextEpoch ==
    \/ \E outputs \in TrainOutputs : training_epoch_end(outputs)
    \/ \E outputs \in ValOutputs : validation_epoch_end(outputs)
    \/ \E outputs \in TestOutputs : test_epoch_end(outputs)

SpecEpoch == InitEpoch /\ [][NextEpoch]_vars

\* configure_optimizers and the schedule, over parameter sets and epoch counts
InitOptim ==
    \E names \in ParamSets, e \in 1..MaxEpochs, wd \in {0, 1} :
        /\ InitDataset(<<>>)
        /\ InitModule(names, [DefaultConfig EXCEPT !.epochs = e, !.weight_decay = wd])

NextOptim ==
    \/ configure_optimizers
    \/ scheduler_step

SpecOptim == InitOptim /\ [][NextOptim]_vars

\* construction with and without freezing, then any calls of the module
InitFreeze ==
    \E names \in ParamSets, f \in FreezeFlags, c \in StepClasses :
        /\ InitDataset(<<>>)
        /\ InitModule(names, [DefaultConfig EXCEPT !.freeze = f, !.num_classes = c])

OneBatch == Collate(<<[input_ids |-> 1, label |-> 0]>>, config.num_classes)

NextFreeze ==
    \/ training_step(OneBatch)
    \/ validation_step(OneBatch)
    \/ test_step(OneBatch)
    \/ training_epoch_end(<<[loss |-> <<1, 5>>, acc |-> <<1, 1>>]>>)
    \/ validation_epoch_end(<<[val_loss |-> <<1, 5>>, val_acc |-> <<1, 1>>]>>)
    \/ test_epoch_end(<<[test_loss |-> <<1, 5>>, test_acc |-> <<1, 1>>]>>)
    \/ configure_optimizers

SpecFreeze == InitFreeze /\ [][NextFreeze]_vars

----------------------------------------------------------------------------
(* Properties of the dataset adapter, under SpecData *)

IsGetItem == call.op = "__getitem__"

\* the Label Vocabulary as the specification gives it
Vocabulary == {"positive", "negative", "neutral"}
ClassIndex(label) ==
    CASE label = "positive" -> 0 [] label = "negative" -> 1 [] label = "neutral" -> 2

EncodedShapes ==
    /\ ret.status = "ok"
    /\ Len(ret.input_ids) = MaxLength
    /\ Len(ret.attention_mask) = MaxLength
    /\ Len(ret.labels) = config.num_classes
    /\ SumSeq(ret.labels) = 1

\* C1 as stated: for every table, every num_classes >= 2 and every index in
\* [0, Size()), GetItem succeeds with token ids and mask of the maximum
\* length and a label vector of num_classes entries summing to 1.
C1_EveryValidIndexEncodes ==
    (IsGetItem /\ call.arg \in 0..(Size(data) - 1)) => EncodedShapes

\* C1 amended: for every index in [0, Size()) whose row carries a label of the
\* vocabulary with class index below num_classes, GetItem succeeds with token
\* ids and mask of length 128 and a label vector of num_classes entries
\* summing to 1; on every other row of the table it raises.
C1_ConsistentRowsEncode ==
    (IsGetItem /\ call.arg \in 0..(Size(data) - 1)) =>
        LET label == data[call.arg + 1].label IN
        IF label \in Vocabulary /\ ClassIndex(label) < config.num_classes
        THEN EncodedShapes
        ELSE ret.status \in {"KeyError", "RuntimeError"}

\* a row whose sentence has to be truncated was encoded
C1_Witness ==
    /\ IsGetItem /\ call.arg \in 0..(Size(data) - 1)
    /\ ret.status = "ok"
    /\ Len(data[call.arg + 1].sentence) > MaxLength - 2

\* C2: GetItem on a row whose label is none of "positive", "negative",
\* "neutral" raises KeyError and returns nothing else; the failed call leaves
\* the rows, the label vocabulary and the configuration, all that a later
\* GetItem reads, as they were.
C2_UnknownLabelRaises ==
    [][\A idx \in Indices :
        (call'.op = "__getitem__" /\ call'.arg = idx /\ Iloc(data, idx).ok
            /\ Iloc(data, idx).row.label \notin Vocabulary) =>
        /\ ret' = [status |-> "KeyError"]
        /\ data' = data
        /\ labels2num' = labels2num
        /\ config' = config]_vars

\* GetItem met a row labelled outside the vocabulary, in a table that also
\* holds a row it can encode
C2_Witness ==
    /\ IsGetItem /\ ret.status = "KeyError"
    /\ \E j \in 1..Len(data) : data[j].label \in Vocabulary

\* C3 as stated: GetItem raises IndexError for every index outside
\* [0, Size()), every negative index included, and returns an example only
\* for an index inside it.
C3_OutsideRangeRaises ==
    IsGetItem =>
        /\ (call.arg < 0 \/ call.arg >= Size(data)) => ret.status = "IndexError"
        /\ ret.status = "ok" => call.arg \in 0..(Size(data) - 1)

\* C3 amended: GetItem raises IndexError exactly for the indices >= Size() or
\* < -Size(); an index i in [-Size(), 0) addresses row Size() + i, so an
\* example is returned only for an index in [-Size(), Size()).
C3_IndexErrorBounds ==
    IsGetItem =>
        /\ ret.status = "IndexError" <=>
              (call.arg >= Size(data) \/ call.arg < 0 - Size(data))
        /\ ret.status = "ok" => call.arg \in (0 - Size(data))..(Size(data) - 1)
        /\ call.arg \in (0 - Size(data))..(0 - 1) =>
              ret = GetItemResult(call.arg + Size(data))

\* a negative index returned an example
C3_Witness == IsGetItem /\ call.arg < 0 /\ ret.status = "ok"

IsOneHot(v, k) == \A i \in 1..Len(v) : v[i] = (IF i = k + 1 THEN 1 ELSE 0)

\* C9 as stated: under any num_classes >= 2, for every class index k of the
\* vocabulary the label vector of a row of class k is one-hot at k and the
\* step's argmax gives k back.
C9_EveryClassRoundTrips ==
    \A idx \in Indices :
        (IsGetItem /\ call.arg = idx /\ Iloc(data, idx).ok
            /\ Iloc(data, idx).row.label \in Vocabulary) =>
        LET k == ClassIndex(Iloc(data, idx).row.label) IN
        ret.status = "ok" /\ IsOneHot(ret.labels, k) /\ Argmax(ret.labels) = k

\* C9 amended: for every class index k of the vocabulary below num_classes the
\* label vector is one-hot at k and the argmax gives k back; for a class index
\* k >= num_classes GetItem raises and produces no label vector.
C9_OneHotRoundTrip ==
    \A idx \in Indices :
        (IsGetItem /\ call.arg = idx /\ Iloc(data, idx).ok
            /\ Iloc(data, idx).row.label \in Vocabulary) =>
        LET k == ClassIndex(Iloc(data, idx).row.label) IN
        IF k < config.num_classes
        THEN ret.status = "ok" /\ IsOneHot(ret.labels, k) /\ Argmax(ret.labels) = k
        ELSE ret.status = "RuntimeError"

\* the last class of the vocabulary made the round trip
C9_Witness ==
    /\ IsGetItem /\ ret.status = "ok"
    /\ Iloc(data, call.arg).row.label = "neutral"
    /\ Argmax(ret.labels) = 2

----------------------------------------------------------------------------
(* Properties of the step functions, under SpecStep *)

StepOps == {"training_step", "validation_step", "test_step"}

NoValues == [status |-> "raised", loss |-> CrossEntropyLoss(<<>>, <<>>), acc |-> <<0, 0>>]

\* the loss and the accuracy a step gave, whatever the keys it gave them under
TrainValues(batch) ==
    LET r == TrainingStepResult(batch) IN
    IF r.status = "ok" THEN [status |-> "ok", loss |-> r.value.loss, acc |-> r.value.acc]
    ELSE [NoValues EXCEPT !.status = r.status]

ValValues(batch) ==
    LET r == ValidationStepResult(batch) IN
    IF r.status = "ok" THEN [status |-> "ok", loss |-> r.value.val_loss, acc |-> r.value.val_acc]
    ELSE [NoValues EXCEPT !.status = r.status]

TestValues(batch) ==
    LET r == TestStepResult(batch) IN
    IF r.status = "ok" THEN [status |-> "ok", loss |-> r.value.test_loss, acc |-> r.value.test_acc]
    ELSE [NoValues EXCEPT !.status = r.status]

RetValues ==
    IF ret.status # "ok" THEN [NoValues EXCEPT !.status = ret.status]
    ELSE CASE call.op = "training_step" ->
                [status |-> "ok", loss |-> ret.value.loss, acc |-> ret.value.acc]
           [] call.op = "validation_step" ->
                [status |-> "ok", loss |-> ret.value.val_loss, acc |-> ret.value.val_acc]
           [] call.op = "test_step" ->
                [status |-> "ok", loss |-> ret.value.test_loss, acc |-> ret.value.test_acc]

\* the fraction of the batch's examples whose highest raw score sits at the
\* class its one-hot label marks
ArgmaxAgreement(batch) ==
    LET scores == View(Forward(batch), config.num_classes)
        n == Len(batch.labels)
    IN  Frac(Cardinality({i \in 1..n : Argmax(scores[i]) = Argmax(batch.labels[i])}), n)

\* C4: for every class count >= 2, binary mode included, the accuracy a step
\* returns is the fraction of examples whose argmax over the raw scores equals
\* the argmax of the one-hot label.
C4_AccuracyIsArgmaxAgreement ==
    call.op \in StepOps =>
        /\ ret.status = "ok"
        /\ RetValues.acc = ArgmaxAgreement(call.arg)

\* C10: on one batch the three step functions give the same loss and the same
\* accuracy; what a step gave is what any of them gives on that batch after
\* the accumulator has taken further batches in, namely the batch's own
\* cross-entropy and argmax agreement; a step changes neither the
\* configuration nor any parameter's trainability.
C10_StepsAgree ==
    /\ [](call.op \in StepOps =>
            /\ TrainValues(call.arg) = ValValues(call.arg)
            /\ ValValues(call.arg) = TestValues(call.arg)
            /\ RetValues = TrainValues(call.arg)
            /\ ret.status = "ok" =>
                  /\ RetValues.acc = ArgmaxAgreement(call.arg)
                  /\ RetValues.loss =
                        CrossEntropyLoss(View(Forward(call.arg), config.num_classes),
                                         call.arg.labels))
    /\ [][call'.op \in StepOps => (config' = config /\ requires_grad' = requires_grad)]_vars

\* a validation step returned an accuracy that differs from the accumulated one
C10_Witness ==
    /\ call.op = "validation_step"
    /\ ret.status = "ok"
    /\ accuracy.total > Len(call.arg.labels)
    /\ Frac(accuracy.correct, accuracy.total) # ret.value.val_acc

----------------------------------------------------------------------------
(* Properties of epoch aggregation, under SpecEpoch *)

EpochOps == {"training_epoch_end", "validation_epoch_end", "test_epoch_end"}

Phase == CASE call.op = "training_epoch_end" -> "train"
           [] call.op = "validation_epoch_end" -> "val"
           [] call.op = "test_epoch_end" -> "test"

\* the per-batch losses and accuracies the hook was handed
BatchLosses ==
    [i \in 1..Len(call.arg) |->
        CASE Phase = "train" -> call.arg[i].loss
          [] Phase = "val" -> call.arg[i].val_loss
          [] Phase = "test" -> call.arg[i].test_loss]

BatchAccs ==
    [i \in 1..Len(call.arg) |->
        CASE Phase = "train" -> call.arg[i].acc
          [] Phase = "val" -> call.arg[i].val_acc
          [] Phase = "test" -> call.arg[i].test_acc]

RECURSIVE ProdDen(_)
ProdDen(values) == IF values = <<>> THEN 1 ELSE Head(values)[2] * ProdDen(Tail(values))

\* v is the arithmetic mean of the rationals `values`: v * Len = their sum,
\* over the common denominator ProdDen(values)
IsMeanOf(v, values) ==
    LET m == ProdDen(values)
        total == SumSeq([i \in 1..Len(values) |-> values[i][1] * (m \div values[i][2])])
    IN  v[2] > 0 /\ v[1] * Len(values) * m = total * v[2]

\* C5: an epoch-end hook handed a non-empty sequence of per-batch results
\* logs exactly two metrics, <phase>/loss and <phase>/acc, the first the
\* arithmetic mean of the per-batch losses and the second that of the
\* per-batch accuracies; the module keeps nothing of them.
C5_EpochMeans ==
    call.op \in EpochOps =>
        /\ Len(logged) = 2
        /\ \E i, j \in 1..2 :
              /\ logged[i].name = (CASE Phase = "train" -> "train/loss"
                                     [] Phase = "val" -> "val/loss"
                                     [] Phase = "test" -> "test/loss")
              /\ IsMeanOf(logged[i].value, BatchLosses)
              /\ logged[j].name = (CASE Phase = "train" -> "train/acc"
                                     [] Phase = "val" -> "val/acc"
                                     [] Phase = "test" -> "test/acc")
              /\ IsMeanOf(logged[j].value, BatchAccs)
        /\ ret = None
        /\ accuracy = NewAccuracy(config)
        /\ optimizer = <<>>
        /\ scheduler = [status |-> "none"]

\* the test hook averaged two batches of different loss and accuracy
C5_Witness ==
    /\ call.op = "test_epoch_end"
    /\ Len(call.arg) = 2
    /\ call.arg[1].test_loss # call.arg[2].test_loss
    /\ call.arg[1].test_acc # call.arg[2].test_acc
    /\ Len(logged) = 2

----------------------------------------------------------------------------
(* Properties of configure_optimizers and the schedule, under SpecOptim *)

Configured == scheduler.status = "set"

Names == DOMAIN requires_grad

Partitioned ==
    /\ Len(optimizer) = 2
    /\ optimizer[1].params \cap optimizer[2].params = {}
    /\ optimizer[1].params \cup optimizer[2].params = Names
    /\ optimizer[1].weight_decay = config.weight_decay
    /\ optimizer[2].weight_decay = 0

\* C6 as stated: the two groups partition the parameters; a parameter named
\* "bias" or whose name contains "LayerNorm.weight" is in the group of weight
\* decay 0.0 and every other parameter in the group of the configured decay.
C6_NamedBiasPartition ==
    Configured =>
        /\ Partitioned
        /\ \A n \in Names :
              IF n = Bias \/ Contains(n, LayerNormWeight)
              THEN n \in optimizer[2].params
              ELSE n \in optimizer[1].params

\* C6 amended: the two groups partition the parameters; a parameter whose
\* name contains "bias" or contains "LayerNorm.weight" is in the group of
\* weight decay 0.0 and every other parameter in the group of the configured
\* decay.
C6_ContainsBiasPartition ==
    Configured =>
        /\ Partitioned
        /\ \A n \in Names :
              IF Contains(n, Bias) \/ Contains(n, LayerNormWeight)
              THEN n \in optimizer[2].params
              ELSE n \in optimizer[1].params

\* both groups hold a parameter, the undecayed one a bias of a layer
C6_Witness ==
    /\ Configured
    /\ optimizer[1].params # {}
    /\ \E n \in optimizer[2].params : Contains(n, Bias) /\ n # Bias

Rate == optimizer[1].lr

Stepped == Configured /\ scheduler'.last_epoch = scheduler.last_epoch + 1

\* C8 as stated: for every epoch count the rate does not fall over steps
\* 0..5, does not rise from step 5 on, and is zero at step = the epoch count.
C8_ScheduleForEveryEpochCount ==
    [][Stepped =>
        /\ scheduler.last_epoch < 5 => Rate' >= Rate
        /\ scheduler.last_epoch >= 5 => Rate' <= Rate
        /\ scheduler'.last_epoch = config.epochs => Rate' = 0]_vars

\* C8 amended: the rate does not fall over steps 0..5 and is the configured
\* learning rate at step 5; for every epoch count above 5 it does not rise
\* from step 5 to step = the epoch count, where it is zero.
C8_ScheduleAboveWarmup ==
    [][Stepped =>
        /\ scheduler.last_epoch < 5 => Rate' >= Rate
        /\ scheduler'.last_epoch = 5 => Rate' = config.lr * Scale
        /\ (config.epochs > 5 /\ scheduler.last_epoch >= 5
              /\ scheduler'.last_epoch <= config.epochs) => Rate' <= Rate
        /\ (config.epochs > 5 /\ scheduler'.last_epoch = config.epochs) => Rate' = 0]_vars

\* a schedule longer than its warmup was advanced to its last step, through a
\* step strictly between the peak and the end
C8_Witness ==
    /\ Configured
    /\ config.epochs > 7
    /\ scheduler.last_epoch = config.epochs
    /\ Rate = 0

----------------------------------------------------------------------------
(* Properties of freezing, under SpecFreeze *)

\* C7: with freeze "true", every parameter whose name does not contain
\* "classifier" has gradient updates disabled and every parameter whose name
\* contains it stays updatable; with any other flag no parameter is
\* disabled; this holds after construction and after every later call.
C7_FreezeAllButClassifier ==
    \A n \in Names :
        requires_grad[n] = ~(config.freeze = "true" /\ ~Contains(n, Classifier))

\* a frozen module, one parameter frozen and one trainable, after steps, an
\* epoch end and configure_optimizers
C7_Witness ==
    /\ config.freeze = "true"
    /\ \E n \in Names : ~requires_grad[n]
    /\ \E n \in Names : requires_grad[n]
    /\ Configured
    /\ logged # <<>>
    /\ accuracy.total > 0

====
